---- MODULE Spec2Model ----
(***************************************************************************)
(* RunPreview (dagit): the render of the execution plan preview.           *)
(*                                                                         *)
(* The component holds no state of its own.  The model keeps the props it  *)
(* was last rendered with, the local error list and the element tree of    *)
(* the last render, and a history of (input, output) pairs of the renders  *)
(* so far.  JavaScript values are records tagged with jstype; an element   *)
(* tree is a record (a view-model of the JSX), a thrown TypeError is the   *)
(* record [element |-> "TypeError"].                                       *)
(***************************************************************************)
EXTENDS Integers, Sequences, FiniteSets, TLC

VARIABLES plan, errors, out, log, locale

vars == <<plan, errors, out, log, locale>>

\* ------------------------------------------------------------------ bounds
\* longest error sequence of the plans enumerated for Spec
MaxLen == 2
\* renders recorded in one behaviour
MaxRenders == 2
\* renders recorded in one behaviour of SpecHistory
MaxHistory == 3
\* longest error sequence of the plans enumerated for SpecCount
MaxCount == 1100

\* --------------------------------------------------------- JavaScript values
Undefined == [jstype |-> "undefined"]

Null == [jstype |-> "null"]

Array(items) == [jstype |-> "array", items |-> items]

\* a value in a boolean position (plan && ...)
Truthy(v) == v.jstype \notin {"undefined", "null"}

\* plan.errors: a property that is not there reads as undefined
GetErrors(p) == IF "errors" \in DOMAIN p THEN p.errors ELSE Undefined

\* the default locales of the hosts modelled
Locales == {"en-US", "de-DE"}

GroupSeparator(loc) == IF loc = "en-US" THEN "," ELSE "."

DigitChar(d) ==
    CASE d = 0 -> "0" [] d = 1 -> "1" [] d = 2 -> "2" [] d = 3 -> "3"
      [] d = 4 -> "4" [] d = 5 -> "5" [] d = 6 -> "6" [] d = 7 -> "7"
      [] d = 8 -> "8" [] d = 9 -> "9"

RECURSIVE FormatDigits(_, _, _)
\* the decimal digits of n, least significant first; pos digits are already
\* written to the right, and a group separator goes before every third one
FormatDigits(n, pos, sep) ==
    LET d == DigitChar(n % 10)
        rest == n \div 10
    IN  IF rest = 0
        THEN d
        ELSE FormatDigits(rest, pos + 1, sep)
                 \o (IF (pos + 1) % 3 = 0 THEN sep ELSE "") \o d

RawToString(n, loc) == ToString(n)

\* Number.prototype.toLocaleString() with no argument: the host's locale
ToLocaleString(n, loc) == FormatDigits(n, 0, GroupSeparator(loc))

\* ------------------------------------------------------------------ inputs
ConfigErrors ==
    {[reason |-> "RUNTIME_TYPE_MISMATCH", message |-> "bad field"],
     [reason |-> "MISSING_REQUIRED_FIELD", message |-> "missing field"]}

Reasons == {e.reason : e \in ConfigErrors}

SeqsUpTo(S, n) == UNION {[1..k -> S] : k \in 0..n}

ErrorTypenames == {"PipelineConfigValidationInvalid", "PipelineConfigEvaluationError"}

KnownTypenames == ErrorTypenames \cup {"ExecutionPlan", "PipelineNotFoundError"}

NotFoundMessage == "pipeline not found"

ExecutionPlans ==
    {[jstype |-> "object", __typename |-> "ExecutionPlan", steps |-> s] :
        s \in {"stepsA", "stepsB"}}

NotFoundPlans ==
    {[jstype |-> "object", __typename |-> "PipelineNotFoundError",
      message |-> NotFoundMessage],
     [jstype |-> "object", __typename |-> "PipelineNotFoundError",
      message |-> NotFoundMessage,
      errors |-> Array(<<CHOOSE e \in ConfigErrors : TRUE>>)]}

ErrorPlan(t, errs) == [jstype |-> "object", __typename |-> t, errors |-> errs]

\* the two error variants as the fragment types them
TypedErrorPlans ==
    {ErrorPlan(t, Array(s)) : t \in ErrorTypenames, s \in SeqsUpTo(ConfigErrors, MaxLen)}

\* the two error discriminants with the errors field null or missing
UntypedErrorPlans ==
    {ErrorPlan(t, Null) : t \in ErrorTypenames}
      \cup {[jstype |-> "object", __typename |-> t] : t \in ErrorTypenames}

\* values with a discriminant the fragment does not name
UnknownPlans ==
    {[jstype |-> "object", __typename |-> "PythonError"],
     [jstype |-> "object", __typename |-> "PythonError",
      errors |-> Array(<<CHOOSE e \in ConfigErrors : TRUE>>)],
     [jstype |-> "object", __typename |-> "PythonError", errors |-> Null]}

Plans ==
    {Undefined, Null} \cup ExecutionPlans \cup NotFoundPlans
      \cup TypedErrorPlans \cup UntypedErrorPlans \cup UnknownPlans

\* the plans that carry at most one error
HistoryPlans ==
    {p \in Plans : ("errors" \in DOMAIN p /\ p.errors.jstype = "array")
                        => Len(p.errors.items) <= 1}

\* an error variant with n errors
CountPlan(t, n) ==
    ErrorPlan(t, Array([i \in 1..n |->
        IF i % 2 = 1
        THEN [reason |-> "RUNTIME_TYPE_MISMATCH", message |-> "bad field"]
        ELSE [reason |-> "MISSING_REQUIRED_FIELD", message |-> "missing field"]]))

\* ------------------------------------------------------------------ render
StaleErrors(prev) == prev

\* let errors = []: a fresh local list in every render, whatever the last
\* render (prev) left
InitialErrors(prev) == Array(<<>>)

DeriveErrorsNotFound(p, init) ==
    IF Truthy(p) /\ p.__typename \in ErrorTypenames THEN GetErrors(p)
    ELSE IF Truthy(p) /\ p.__typename = "PipelineNotFoundError"
         THEN Array(<<[reason |-> "NOT_FOUND", message |-> p.message]>>)
         ELSE init

DeriveErrorsAnyNonPlan(p, init) ==
    IF Truthy(p) /\ p.__typename # "ExecutionPlan" THEN GetErrors(p) ELSE init

DeriveErrorsByField(p, init) ==
    IF Truthy(p) /\ "errors" \in DOMAIN p /\ p.__typename # "ExecutionPlan"
    THEN GetErrors(p) ELSE init

\* the two if statements over the local list
DeriveErrors(p, init) ==
    LET e1 == IF Truthy(p) /\ p.__typename = "PipelineConfigValidationInvalid"
              THEN GetErrors(p) ELSE init
        e2 == IF Truthy(p) /\ p.__typename = "PipelineConfigEvaluationError"
              THEN GetErrors(p) ELSE e1
    IN  e2

DelegateNoPayload(p) == [element |-> "ExecutionPlan", executionPlan |-> Undefined]

\* <ExecutionPlan executionPlan={plan} />
Delegate(p) == [element |-> "ExecutionPlan", executionPlan |-> p]

AlwaysPlural(n) == "errors"

ErrorWord(n) == IF n = 1 THEN "error" ELSE "errors"

StaticPrompt == "Provide valid configuration to see an execution plan."

DescriptionOffByOne(items, loc) ==
    IF Len(items) > 1
    THEN "Fix the " \o ToLocaleString(Len(items), loc) \o " "
            \o ErrorWord(Len(items)) \o " below to preview the execution plan."
    ELSE StaticPrompt

\* the description of the NonIdealState
Description(items, loc) ==
    IF Len(items) # 0
    THEN "Fix the " \o ToLocaleString(Len(items), loc) \o " "
            \o ErrorWord(Len(items)) \o " below to preview the execution plan."
    ELSE StaticPrompt

RowsShowReason(items) ==
    [i \in 1..Len(items) |-> [key |-> i - 1, icon |-> "error", text |-> items[i].reason]]

\* errors.map((e, idx) => <ErrorRow key={idx}> <Icon icon="error"/> {e.message} </ErrorRow>)
ErrorRows(items) ==
    [i \in 1..Len(items) |-> [key |-> i - 1, icon |-> "error", text |-> items[i].message]]

ArrayAfterReverse(items) == [i \in 1..Len(items) |-> items[Len(items) + 1 - i]]

\* the receiver of errors.map after the call: map builds a new array
ArrayAfterMap(items) == items

\* reading .length of undefined or null throws
ThrowsOnLength(errs) == errs.jstype \in {"undefined", "null"}

\* the returned element tree
View(p, errs, loc) ==
    IF Truthy(p) /\ p.__typename = "ExecutionPlan"
    THEN Delegate(p)
    ELSE IF ThrowsOnLength(errs)
         THEN [element |-> "TypeError"]
         ELSE [element |-> "NonIdealWrap",
               icon |-> "send-to-graph",
               title |-> "No Execution Plan",
               description |-> Description(errs.items, loc),
               rows |-> ErrorRows(errs.items)]

\* the local list is the very array of the props when one of the two ifs
\* assigned it
Aliased(p, errs) ==
    /\ Truthy(p)
    /\ p.__typename \in ErrorTypenames
    /\ errs.jstype = "array"

\* the props object once the render has returned
PropsAfterRender(p, errs) ==
    IF Aliased(p, errs)
    THEN [p EXCEPT !.errors = Array(ArrayAfterMap(errs.items))]
    ELSE p

\* React hands the component the props p and calls render
Render(p) ==
    LET errs == DeriveErrors(p, InitialErrors(errors))
        view == View(p, errs, locale)
    IN  /\ errors' = errs
        /\ out' = view
        /\ plan' = PropsAfterRender(p, errs)
        /\ log' = Append(log, [input |-> p, output |-> view])
        /\ UNCHANGED locale

Init ==
    /\ plan = Undefined
    /\ errors = Array(<<>>)
    /\ out = [element |-> "none"]
    /\ log = <<>>
    /\ locale \in Locales

\* up to MaxRenders renders, each with any of the plans
Next == \E p \in Plans : Len(log) < MaxRenders /\ Render(p)

Spec == Init /\ [][Next]_vars

\* one render of an error variant with 0..MaxCount errors
NextCount ==
    \E t \in ErrorTypenames, n \in 0..MaxCount : log = <<>> /\ Render(CountPlan(t, n))

SpecCount == Init /\ [][NextCount]_vars

\* up to MaxHistory renders, each with any of the plans of at most one error
NextHistory == \E p \in HistoryPlans : Len(log) < MaxHistory /\ Render(p)

SpecHistory == Init /\ [][NextHistory]_vars

\* ------------------------------------------------------------- properties
Renders == 1..Len(log)

IsExecutionPlan(p) == Truthy(p) /\ p.__typename = "ExecutionPlan"

\* an error variant whose errors field is a sequence
IsTypedErrorPlan(p) ==
    /\ Truthy(p)
    /\ p.__typename \in ErrorTypenames
    /\ "errors" \in DOMAIN p
    /\ p.errors.jstype = "array"

IsFallback(o) == o.element = "NonIdealWrap"

Sentence(count, word) ==
    "Fix the " \o count \o " " \o word \o " below to preview the execution plan."

Pad3(m) ==
    IF m < 10 THEN "00" \o ToString(m)
    ELSE IF m < 100 THEN "0" \o ToString(m) ELSE ToString(m)

\* n < 1000000 in groups of three digits
Grouped3(n, sep) ==
    IF n < 1000 THEN ToString(n)
    ELSE ToString(n \div 1000) \o sep \o Pad3(n % 1000)

\* the ways a count may be written: plain, or grouped by a separator
CountForms(n) == {ToString(n)} \cup {Grouped3(n, sep) : sep \in {",", "."}}

\* C1: an input whose discriminant is ExecutionPlan is rendered as the
\* ExecutionPlan element alone, with the very plan received as executionPlan:
\* no title, no description, no error rows
C1_DelegatesPlan ==
    \A i \in Renders :
        IsExecutionPlan(log[i].input) =>
            /\ log[i].output = [element |-> "ExecutionPlan",
                                executionPlan |-> log[i].input]
            /\ DOMAIN log[i].output = {"element", "executionPlan"}

C1_Witness ==
    \E i \in Renders :
        /\ IsExecutionPlan(log[i].input)
        /\ log[i].input.steps = "stepsB"
        /\ log[i].output.element = "ExecutionPlan"

\* C2: an error variant with N > 0 errors is rendered with exactly N rows,
\* the k-th showing the message of the k-th error (input order, duplicates
\* kept), and no row shows a reason
C2_RowsAreMessagesInOrder ==
    \A i \in Renders :
        LET p == log[i].input
            o == log[i].output
        IN  (IsTypedErrorPlan(p) /\ Len(p.errors.items) > 0) =>
                /\ IsFallback(o)
                /\ Len(o.rows) = Len(p.errors.items)
                /\ \A k \in 1..Len(o.rows) :
                      /\ o.rows[k].text = p.errors.items[k].message
                      /\ o.rows[k].text \notin Reasons
                      /\ "reason" \notin DOMAIN o.rows[k]

C2_Witness ==
    \E i \in Renders :
        LET p == log[i].input
            o == log[i].output
        IN  /\ IsTypedErrorPlan(p)
            /\ Len(p.errors.items) = 2
            /\ p.errors.items[1] = p.errors.items[2]
            /\ IsFallback(o)
            /\ Len(o.rows) = 2
            /\ o.rows[1].text = "missing field"

\* C3: with N > 0 errors the description is "Fix the N error below ..." when
\* N = 1 and "Fix the N errors below ..." for every other N, N being the
\* length of the input sequence (written plain or in groups of three)
C3_Pluralization ==
    \A i \in Renders :
        LET p == log[i].input
            o == log[i].output
            n == Len(p.errors.items)
        IN  (IsTypedErrorPlan(p) /\ n > 0) =>
                /\ IsFallback(o)
                /\ n = 1 =>
                     o.description = "Fix the 1 error below to preview the execution plan."
                /\ n # 1 =>
                     o.description \in {Sentence(c, "errors") : c \in CountForms(n)}
                /\ n = 2 =>
                     o.description = "Fix the 2 errors below to preview the execution plan."

C3_Witness ==
    \E i \in Renders :
        /\ IsTypedErrorPlan(log[i].input)
        /\ Len(log[i].input.errors.items) = 1
        /\ log[i].output.description =
              "Fix the 1 error below to preview the execution plan."

\* C4: an undefined plan and a PipelineNotFoundError give the fallback view
\* with the fixed title, the static description and no rows; the derived
\* error list is empty and the PipelineNotFoundError message is nowhere in
\* the output
C4_AbsentOrNotFoundIsEmptyFallback ==
    /\ \A i \in Renders :
          LET p == log[i].input
              o == log[i].output
          IN  (p = Undefined \/ (Truthy(p) /\ p.__typename = "PipelineNotFoundError")) =>
                  /\ IsFallback(o)
                  /\ o.title = "No Execution Plan"
                  /\ o.description = "Provide valid configuration to see an execution plan."
                  /\ o.rows = <<>>
                  /\ DOMAIN o = {"element", "icon", "title", "description", "rows"}
                  /\ NotFoundMessage \notin {o.element, o.icon, o.title, o.description}
    /\ (log # <<>> /\ (log[Len(log)].input = Undefined
                        \/ (Truthy(log[Len(log)].input)
                              /\ log[Len(log)].input.__typename = "PipelineNotFoundError")))
          => errors = Array(<<>>)

C4_Witness ==
    \E i \in Renders :
        /\ Truthy(log[i].input)
        /\ log[i].input.__typename = "PipelineNotFoundError"
        /\ "errors" \in DOMAIN log[i].input
        /\ IsFallback(log[i].output)
        /\ log[i].output.rows = <<>>

C6_UnknownDiscriminantIsEmptyFallback ==
    \A i \in Renders :
        LET p == log[i].input
            o == log[i].output
        IN  (Truthy(p) /\ p.__typename \notin KnownTypenames) =>
                /\ IsFallback(o)
                /\ o.description = "Provide valid configuration to see an execution plan."
                /\ o.rows = <<>>

C6_Witness ==
    \E i \in Renders :
        LET p == log[i].input
        IN  /\ Truthy(p)
            /\ p.__typename = "PythonError"
            /\ "errors" \in DOMAIN p
            /\ p.errors.jstype = "array"
            /\ Len(p.errors.items) = 1
            /\ IsFallback(log[i].output)

\* C7: in any sequence of renders, two renders of the same input give the
\* same output, whatever was rendered before or between them
C7_OutputIsFunctionOfInput ==
    \A i, j \in Renders :
        log[i].input = log[j].input => log[i].output = log[j].output

C7_Witness ==
    /\ Len(log) = 3
    /\ log[1].input = log[3].input
    /\ log[2].input # log[1].input
    /\ log[1].output = log[3].output
    /\ log[2].output # log[1].output
    /\ IsTypedErrorPlan(log[2].input)
    /\ Len(log[2].input.errors.items) = 1

\* C8: a render leaves its input as it was: the props after the render are
\* the props it was called with, errors sequence included
C8_InputUnchanged ==
    log # <<>> => plan = log[Len(log)].input

C8_Witness ==
    /\ log # <<>>
    /\ IsTypedErrorPlan(log[Len(log)].input)
    /\ Len(log[Len(log)].input.errors.items) = 2
    /\ log[Len(log)].input.errors.items[1] # log[Len(log)].input.errors.items[2]
    /\ errors = log[Len(log)].input.errors
    /\ plan = log[Len(log)].input

\* C9: the count in the description is the length of the error list written
\* in groups of three digits with the locale's separator ("1", "2",
\* "1,000" in en-US), not the plain digit string
C9_CountIsLocalized ==
    \A i \in Renders :
        LET p == log[i].input
            o == log[i].output
            n == Len(p.errors.items)
            sep == IF locale = "en-US" THEN "," ELSE "."
        IN  (IsTypedErrorPlan(p) /\ n > 0) =>
                /\ IsFallback(o)
                /\ o.description \in
                      {Sentence(Grouped3(n, sep), w) : w \in {"error", "errors"}}
                /\ n >= 1000 =>
                      o.description \notin
                          {Sentence(ToString(n), w) : w \in {"error", "errors"}}
                /\ (locale = "en-US" /\ n = 1000) =>
                      o.description =
                          "Fix the 1,000 errors below to preview the execution plan."

C9_Witness ==
    \E i \in Renders :
        /\ locale = "en-US"
        /\ IsTypedErrorPlan(log[i].input)
        /\ Len(log[i].input.errors.items) = 1000
        /\ log[i].output.description =
              "Fix the 1,000 errors below to preview the execution plan."

\* C10: in every fallback view the description is the static prompt exactly
\* when no row is rendered, and otherwise names the number of rows rendered;
\* an error variant with an empty sequence gives the very output of an
\* undefined plan
C10_DescriptionMatchesRows ==
    \A i \in Renders :
        LET p == log[i].input
            o == log[i].output
        IN  IsFallback(o) =>
                /\ (o.description = "Provide valid configuration to see an execution plan.")
                      <=> (Len(o.rows) = 0)
                /\ Len(o.rows) > 0 =>
                      o.description \in
                          {Sentence(c, w) : c \in CountForms(Len(o.rows)),
                                            w \in {"error", "errors"}}
                /\ (IsTypedErrorPlan(p) /\ p.errors.items = <<>>) =>
                      o = [element |-> "NonIdealWrap",
                           icon |-> "send-to-graph",
                           title |-> "No Execution Plan",
                           description |->
                               "Provide valid configuration to see an execution plan.",
                           rows |-> <<>>]

C10_Witness ==
    /\ Len(log) = 2
    /\ log[1].input = Undefined
    /\ IsTypedErrorPlan(log[2].input)
    /\ log[2].input.errors.items = <<>>
    /\ log[2].output = log[1].output
    /\ IsFallback(log[2].output)

====
